---- MODULE Spec2Model ----
(***************************************************************************)
(* Model of the economic indicators dashboard (src/moni.py): the cached    *)
(* fetch functions, calculate_metrics, format_change and the indicator     *)
(* loops of main.                                                          *)
(*                                                                         *)
(* Python values are encoded as follows.                                   *)
(*   - An optional number is a sequence: <<>> is None, <<v>> is v.         *)
(*   - A float is <<num, den, err>>: the fraction num/den in lowest terms   *)
(*     (den > 0) that the arithmetic yields over the reals, and the sign    *)
(*     err of (the double the code holds) - num/den.                        *)
(*   - The argument of calculate_metrics is a record [kind, vals]:         *)
(*       "none"   None                                                     *)
(*       "series" a pandas Series, vals its numbers, most recent last      *)
(*       "list"   a list of World Bank records, vals their 'value' fields  *)
(*                (optional numbers), in the order of the list             *)
(*       "text"   a non-empty JSON string (a body that is not a record     *)
(*                list), vals its characters                               *)
(***************************************************************************)
EXTENDS Integers, Sequences, FiniteSets, TLC

VARIABLES
    resp,        \* the upstream answer to the World Bank request
    data,        \* the value handed to calculate_metrics
    metrics,     \* what calculate_metrics returned
    formatted,   \* what format_change returned, and for which field
    phase,       \* position in the fetch / calculate / format pipeline
    cache,       \* st.cache_data entries of the two fetch functions, by key
    now,         \* the clock, in seconds
    lastCall,    \* per key, the most recent call of the cached function
    lastFetch,   \* the most recent call and its predecessor on the same key
    selected,    \* selected_countries of the script run
    rows,        \* one entry per indicator processed by the loops of main
    pc           \* "running", "done" or "crashed"

calcVars == <<resp, data, metrics, formatted, phase>>
cacheVars == <<cache, now, lastCall, lastFetch>>
mainVars == <<selected, rows, pc>>
vars == <<resp, data, metrics, formatted, phase, cache, now, lastCall, lastFetch,
          selected, rows, pc>>

-----------------------------------------------------------------------------
(* Bounds and input domains *)

MaxSeriesLen == 13
MaxListLen == 3

SeriesValues == {0, 10}
ListValues == {0, 45, 50}

None == <<>>
Some(v) == <<v>>

\* Scenario A of the specification: 13 monthly observations, most recent last.
ScenarioA == <<100, 102, 105, 107, 110, 112, 115, 117, 120, 122, 125, 127, 130>>

\* Two observations whose month-over-month percentage, 1/40, lies exactly
\* half-way between two hundredths; the double nearest to it is above it.
HalfwaySeries == <<4000, 4001>>

SeqsUpTo(S, n) == UNION {[1..k -> S] : k \in 0..n}

OptValues == {None} \cup {Some(v) : v \in ListValues}

NoData == [kind |-> "none", vals |-> <<>>]
Series(s) == [kind |-> "series", vals |-> s]
PointList(l) == [kind |-> "list", vals |-> l]
Text == [kind |-> "text", vals |-> <<1>>]

SeriesInputs == {Series(s) : s \in SeqsUpTo(SeriesValues, MaxSeriesLen) \cup {ScenarioA, HalfwaySeries}}
ListInputs == {PointList(l) : l \in SeqsUpTo(OptValues, MaxListLen)}
Inputs == {NoData} \cup SeriesInputs \cup ListInputs

-----------------------------------------------------------------------------
(* Arithmetic helpers *)

Abs(x) == IF x < 0 THEN -x ELSE x

RECURSIVE GCD(_, _)
GCD(a, b) == IF b = 0 THEN a ELSE GCD(b, a % b)

\* The fraction n/d (d # 0) in lowest terms with a positive denominator.
Ratio(n, d) ==
    LET g == GCD(Abs(n), Abs(d))
        s == IF d < 0 THEN -1 ELSE 1
    IN  <<(s * n) \div g, Abs(d) \div g>>

Zero == <<0, 1, 0>>

Sgn(x) == IF x > 0 THEN 1 ELSE IF x < 0 THEN -1 ELSE 0

RECURSIVE Pow2(_)
Pow2(k) == IF k = 0 THEN 1 ELSE 2 * Pow2(k - 1)

\* The k with p * 2^k <= A < p * 2^(k+1), for A >= p > 0.
RECURSIVE Log2Quot(_, _)
Log2Quot(A, p) == IF 2 * p <= A THEN 1 + Log2Quot(A, 2 * p) ELSE 0

\* The m with A * 2^(m-1) < p <= A * 2^m, for 0 < A < p.
RECURSIVE Log2Inv(_, _)
Log2Inv(A, p) == IF A < p THEN 1 + Log2Inv(2 * A, p) ELSE 0

\* The s with 1 <= A * 2^s / p < 2, for A > 0 and p > 0.
Shift(A, p) == IF A >= p THEN -Log2Quot(A, p) ELSE Log2Inv(A, p)

\* Binary long division: <<floor(A * 2^e / p) mod 256, (A * 2^e) mod p>>,
\* eight bits at a step while at least eight remain.
RECURSIVE LongDiv(_, _, _)
LongDiv(A, p, e) ==
    IF e = 0 THEN <<(A \div p) % 256, A % p>>
    ELSE IF e >= 8
         THEN LET prev == LongDiv(A, p, e - 8)
                  t == 256 * prev[2]
              IN  <<(t \div p) % 256, t % p>>
         ELSE LET prev == LongDiv(A, p, e - 1)
                  t == 2 * prev[2]
              IN  <<(2 * prev[1] + (t \div p)) % 256, t % p>>

\* The double A / p for integers A > 0 and p > 0: its 53-bit significand Q
\* is A * 2^(52+s) / p rounded to nearest, ties to even.  low is Q mod 256
\* and delta is Q * p - A * 2^(52+s), the rounding error scaled.
FloatDiv(A, p) ==
    LET s == Shift(A, p)
        qr == LongDiv(A, p, 52 + s)
        up == 2 * qr[2] > p \/ (2 * qr[2] = p /\ qr[1] % 2 = 1)
    IN  [shift |-> s,
         low |-> IF up THEN (qr[1] + 1) % 256 ELSE qr[1],
         delta |-> IF up THEN p - qr[2] ELSE -qr[2]]

\* Sign of (the double n / d) - n/d, for d > 0.
DivErr(n, d) == IF n = 0 THEN 0 ELSE Sgn(n) * Sgn(FloatDiv(Abs(n), d).delta)

\* Sign of (the double (A / p) * 100) - 100 A/p, for A > 0 and p > 0.  The
\* product 100 * Q has 59 or 60 bits and is rounded to 53, ties to even.
MulErr(A, p) ==
    LET f == FloatDiv(A, p)
        L == IF f.shift >= 0 THEN 100 * A * Pow2(f.shift) ELSE 100 * A
        K == IF f.shift >= 0 THEN 128 * p ELSE 128 * p * Pow2(-f.shift)
        j == IF L < K \/ (L = K /\ f.delta < 0) THEN 6 ELSE 7
        m == (100 * f.low) % 256
        low == m % Pow2(j)
        up == \/ 2 * low > Pow2(j)
              \/ (2 * low = Pow2(j) /\ (m \div Pow2(j)) % 2 = 1)
        delta2 == IF up THEN Pow2(j) - low ELSE -low
    IN  Sgn(100 * f.delta + delta2 * p)

\* Sign of (the double ((a) / ref) * 100) - 100 a/ref, for ref # 0.
PctErr(a, ref) ==
    IF a = 0 THEN 0 ELSE Sgn(a) * Sgn(ref) * MulErr(Abs(a), Abs(ref))

\* The float ((a) / ref) * 100.
Percent(a, ref) ==
    LET r == Ratio(a * 100, ref) IN <<r[1], r[2], PctErr(a, ref)>>

\* The float n / d of two integers, d # 0 (a float literal).
Double(n, d) ==
    LET r == Ratio(n, d) IN <<r[1], r[2], DivErr(r[1], r[2])>>

\* Python truthiness of an optional number: None and 0 are false.
Truthy(o) == o # None /\ o[1] # 0

\* Python truthiness of an optional percentage.
TruthyPct(o) == o # None /\ o[1][1] # 0

-----------------------------------------------------------------------------
(* calculate_metrics *)

series_current(s) == Some(s[Len(s)])

series_previous(s) == IF Len(s) > 1 THEN Some(s[Len(s) - 1]) ELSE None

series_year_ago_off(s) == IF Len(s) >= 12 THEN Some(s[Len(s) - 10]) ELSE None

\* data.iloc[-12]: the entry 11 positions before the last one.
series_year_ago(s) == IF Len(s) >= 12 THEN Some(s[Len(s) - 11]) ELSE None

list_current_scan(l) ==
    IF \E i \in 1..Len(l) : Truthy(l[i])
    THEN l[CHOOSE i \in 1..Len(l) : Truthy(l[i]) /\ \A j \in 1..(i - 1) : ~Truthy(l[j])]
    ELSE None

list_current(l) == IF Truthy(l[1]) THEN l[1] ELSE None

list_previous_scan(l) ==
    IF \E i \in 2..Len(l) : Truthy(l[i])
    THEN l[CHOOSE i \in 2..Len(l) : Truthy(l[i]) /\ \A j \in 2..(i - 1) : ~Truthy(l[j])]
    ELSE None

list_previous(l) == IF Len(l) > 1 /\ Truthy(l[2]) THEN l[2] ELSE None

list_year_ago_after_current(l) ==
    IF \E i \in 2..Len(l) : Truthy(l[i])
    THEN l[CHOOSE i \in 2..Len(l) : Truthy(l[i]) /\ \A j \in 2..(i - 1) : ~Truthy(l[j])]
    ELSE None

\* for item in data: if item['value']: year_ago = item['value']; break
list_year_ago(l) ==
    IF \E i \in 1..Len(l) : Truthy(l[i])
    THEN l[CHOOSE i \in 1..Len(l) : Truthy(l[i]) /\ \A j \in 1..(i - 1) : ~Truthy(l[j])]
    ELSE None

\* if ref: metrics['..._change'] = current - ref
change(current, ref) ==
    IF Truthy(ref) THEN Some(current[1] - ref[1]) ELSE None

pct_unguarded(current, ref) ==
    IF ref # None
    THEN IF ref[1] # 0
         THEN Some(Percent(current[1] - ref[1], ref[1]))
         ELSE Some(Zero)
    ELSE None

\* if ref: metrics['..._pct'] = ((current - ref) / ref) * 100 if ref != 0 else 0
pct(current, ref) ==
    IF Truthy(ref)
    THEN IF ref[1] # 0
         THEN Some(Percent(current[1] - ref[1], ref[1]))
         ELSE Some(Zero)
    ELSE None

NoMetrics ==
    [current |-> None, previous |-> None, year_ago |-> None,
     mom_change |-> None, yoy_change |-> None, mom_pct |-> None, yoy_pct |-> None]

RetNone == [ret |-> "None", m |-> NoMetrics]
RetRaise == [ret |-> "raise", m |-> NoMetrics]
NotRun == [ret |-> "notrun", m |-> NoMetrics]

build_metrics(current, previous, year_ago) ==
    [current |-> current, previous |-> previous, year_ago |-> year_ago,
     mom_change |-> change(current, previous),
     yoy_change |-> change(current, year_ago),
     mom_pct |-> pct(current, previous),
     yoy_pct |-> pct(current, year_ago)]

calculate_metrics(d) ==
    IF d.kind = "none" \/ Len(d.vals) = 0 THEN RetNone
    ELSE IF d.kind = "text" THEN RetRaise
    ELSE LET current == IF d.kind = "series" THEN series_current(d.vals)
                        ELSE list_current(d.vals)
             previous == IF d.kind = "series" THEN series_previous(d.vals)
                         ELSE list_previous(d.vals)
             year_ago == IF d.kind = "series" THEN series_year_ago(d.vals)
                         ELSE list_year_ago(d.vals)
         IN  IF current = None THEN RetNone
             ELSE [ret |-> "dict", m |-> build_metrics(current, previous, year_ago)]

-----------------------------------------------------------------------------
(* format_change *)

\* f"{x:.2f}" for a float x >= 0 with real value n/d and error sign err: the
\* number of hundredths printed.  The conversion rounds the double exactly,
\* so the double decides when n/d is half way between two hundredths (the
\* error of the double is far smaller than any other distance to half way):
\* above it rounds up, below it rounds down, on it ties go to even.
Round2(n, d, err) ==
    LET q == (n * 100) \div d
        r == (n * 100) % d
    IN  IF 2 * r > d THEN q + 1
        ELSE IF 2 * r < d THEN q
        ELSE IF err > 0 THEN q + 1
        ELSE IF err < 0 THEN q
        ELSE IF q % 2 = 1 THEN q + 1 ELSE q

NA == [text |-> "N/A", color_class |-> "", arrow |-> "", hundredths |-> 0, suffix |-> ""]
NotFormatted == [text |-> "", color_class |-> "", arrow |-> "", hundredths |-> 0, suffix |-> ""]

color_class_of_sign(num) ==
    IF num >= 0 THEN "positive" ELSE "negative"

color_class_of(num) ==
    IF num > 0 THEN "positive" ELSE IF num < 0 THEN "negative" ELSE "neutral"

arrow_of(num) ==
    IF num > 0 THEN "up" ELSE IF num < 0 THEN "down" ELSE "dot"

\* value is an optional float <<num, den, err>>.
format_change(value, is_percentage) ==
    IF value = None THEN NA
    ELSE [text |-> "span",
          color_class |-> color_class_of(value[1][1]),
          arrow |-> arrow_of(value[1][1]),
          hundredths |-> Round2(Abs(value[1][1]), value[1][2],
                                Sgn(value[1][1]) * value[1][3]),
          suffix |-> IF is_percentage THEN "%" ELSE ""]

\* An optional integer as an optional float.
AsFraction(o) == IF o = None THEN None ELSE Some(<<o[1], 1, 0>>)

-----------------------------------------------------------------------------
(* fetch_world_bank_data and fetch_fred_data, without the cache *)

TTL == 3600
MaxPayloadLen == 3
Statuses == {200, 404, 500}

\* The first element of a World Bank payload (paging metadata); never read.
Meta == [kind |-> "meta", vals |-> <<>>]

NoPayload == [kind |-> "list", elems |-> <<>>]

\* requests.get raised (connection error, timeout).
RequestFailed == [exc |-> TRUE, status |-> 0, decodes |-> FALSE, payload |-> NoPayload]
\* No request was made.
NoResponse == [exc |-> FALSE, status |-> 0, decodes |-> FALSE, payload |-> NoPayload]

Response(st, p) == [exc |-> FALSE, status |-> st, decodes |-> TRUE, payload |-> p]
Undecodable(st) == [exc |-> FALSE, status |-> st, decodes |-> FALSE, payload |-> NoPayload]

SecondElems ==
    {NoData, Text} \cup {PointList(l) : l \in SeqsUpTo(OptValues, MaxListLen - 1)}

\* JSON arrays [meta, second, meta, ...] of every length up to MaxPayloadLen,
\* and a JSON object (an error document).
Payloads ==
    {[kind |-> "dict", elems |-> <<>>], NoPayload, [kind |-> "list", elems |-> <<Meta>>]}
    \cup {[kind |-> "list", elems |-> [i \in 1..n |-> IF i = 2 THEN e ELSE Meta]] :
            n \in 2..MaxPayloadLen, e \in SecondElems}

Responses ==
    {RequestFailed}
    \cup {Undecodable(st) : st \in Statuses}
    \cup {Response(st, p) : st \in Statuses, p \in Payloads}

\* Python truthiness of a decoded JSON element.
TruthyElem(e) == e.kind = "text" \/ (e.kind = "list" /\ Len(e.vals) > 0)

fetch_world_bank_body_any_status(r) ==
    IF r.exc THEN NoData
    ELSE IF ~r.decodes THEN NoData
    ELSE IF r.payload.kind # "list" THEN NoData
    ELSE IF Len(r.payload.elems) > 1 /\ TruthyElem(r.payload.elems[2])
         THEN r.payload.elems[2]
         ELSE NoData

\* The body of fetch_world_bank_data given the upstream answer r.  An
\* exception of requests.get or response.json(), and the KeyError of data[1]
\* on a JSON object, are caught by the except clause, which returns None.
fetch_world_bank_body(r) ==
    IF r.exc THEN NoData
    ELSE IF r.status = 200
         THEN IF ~r.decodes THEN NoData
              ELSE IF r.payload.kind # "list" THEN NoData
              ELSE IF Len(r.payload.elems) > 1 /\ TruthyElem(r.payload.elems[2])
                   THEN r.payload.elems[2]
                   ELSE NoData
         ELSE NoData

\* The body of fetch_fred_data.  The module binds neither FRED_API_KEY nor
\* Fred, so the first statement of the try block raises NameError, which the
\* except clause turns into None.
fetch_fred_body == NoData

\* Why an upstream answer is not a usable record list ("none" when it is one).
Failure(r) ==
    IF r.exc THEN "exception"
    ELSE IF r.status # 200 THEN "status"
    ELSE IF ~r.decodes THEN "decode"
    ELSE IF r.payload.kind = "list" /\ Len(r.payload.elems) > 1
            /\ r.payload.elems[2].kind = "list" /\ Len(r.payload.elems[2].vals) > 0
         THEN "none"
         ELSE "malformed"

-----------------------------------------------------------------------------
(* st.cache_data(ttl=3600) *)

INDICATORS ==
    [US |-> << [key |-> "CPI", id |-> "CPIAUCSL"],
               [key |-> "PPI", id |-> "PPIACO"],
               [key |-> "Interest Rate", id |-> "FEDFUNDS"],
               [key |-> "Unemployment", id |-> "UNRATE"],
               [key |-> "GDP Growth", id |-> "A191RL1Q225SBEA"] >>,
     Europe |-> << [key |-> "CPI", id |-> "CP0000EZ19M086NEST"],
                   [key |-> "PPI", id |-> "PIEAMP01EZM661N"],
                   [key |-> "Interest Rate", id |-> "ECBDFR"],
                   [key |-> "Unemployment", id |-> "LRHUTTTTEZM156S"],
                   [key |-> "GDP Growth", id |-> "CLVMNACSCAB1GQEA19"] >>,
     India |-> << [key |-> "CPI", id |-> "FP.CPI.TOTL.ZG"],
                  [key |-> "Interest Rate", id |-> "FR.INR.RINR"],
                  [key |-> "GDP Growth", id |-> "NY.GDP.MKTP.KD.ZG"],
                  [key |-> "Unemployment", id |-> "SL.UEM.TOTL.ZS"] >>]

Countries == <<"US", "Europe", "India">>

IdsOf(country) == {INDICATORS[country][i].id : i \in 1..Len(INDICATORS[country])}
FredIds == IdsOf("US") \cup IdsOf("Europe")
WBIds == IdsOf("India")
AllIds == FredIds \cup WBIds

NoEntry == [present |-> FALSE, value |-> NoData, stamp |-> 0]
EmptyCache == [k \in AllIds |-> NoEntry]

\* An entry is served while its age is below the TTL.
Fresh(c, key, t) == c[key].present /\ t < c[key].stamp + TTL

cached_call_skip_none(c, key, t, result) ==
    IF Fresh(c, key, t)
    THEN [ran |-> FALSE, result |-> c[key].value, cache |-> c]
    ELSE [ran |-> TRUE, result |-> result,
          cache |-> IF result = NoData THEN c
                    ELSE [c EXCEPT ![key] = [present |-> TRUE, value |-> result, stamp |-> t]]]

\* One call of a function decorated with st.cache_data(ttl=3600) at time t,
\* where result is what the function body returns if it is executed.
cached_call(c, key, t, result) ==
    IF Fresh(c, key, t)
    THEN [ran |-> FALSE, result |-> c[key].value, cache |-> c]
    ELSE [ran |-> TRUE, result |-> result,
          cache |-> [c EXCEPT ![key] = [present |-> TRUE, value |-> result, stamp |-> t]]]

fetch_fred_data(c, key, t) == cached_call(c, key, t, fetch_fred_body)

fetch_world_bank_data(c, key, t, r) == cached_call(c, key, t, fetch_world_bank_body(r))

-----------------------------------------------------------------------------
(* The calculator applied to every input of the domain *)

ChangeFields == {"mom_change", "yoy_change", "mom_pct", "yoy_pct"}

\* The value of a change field of a metrics record, as an optional float.
FieldValue(m, f) ==
    IF f = "mom_change" THEN AsFraction(m.mom_change)
    ELSE IF f = "yoy_change" THEN AsFraction(m.yoy_change)
    ELSE IF f = "mom_pct" THEN m.mom_pct
    ELSE m.yoy_pct

NeverCalled == [called |-> FALSE, at |-> 0, ran |-> FALSE, result |-> NoData]
NoFetch == [fn |-> "", key |-> "", prev |-> NeverCalled, cur |-> NeverCalled]

CacheIdle ==
    /\ cache = EmptyCache
    /\ now = 0
    /\ lastCall = [k \in AllIds |-> NeverCalled]
    /\ lastFetch = NoFetch

MainIdle ==
    /\ selected = <<>>
    /\ rows = <<>>
    /\ pc = "idle"

CalcInit ==
    /\ resp = NoResponse
    /\ data \in Inputs
    /\ metrics = NotRun
    /\ formatted = [field |-> "", out |-> NotFormatted]
    /\ phase = "input"
    /\ CacheIdle
    /\ MainIdle

Calculate ==
    /\ phase = "input"
    /\ metrics' = calculate_metrics(data)
    /\ phase' = "calculated"
    /\ UNCHANGED <<resp, data, formatted, cacheVars, mainVars>>

Format ==
    /\ phase = "calculated"
    /\ metrics.ret = "dict"
    /\ \E f \in ChangeFields :
         formatted' = [field |-> f,
                       out |-> format_change(FieldValue(metrics.m, f),
                                             f \in {"mom_pct", "yoy_pct"})]
    /\ phase' = "formatted"
    /\ UNCHANGED <<resp, data, metrics, cacheVars, mainVars>>

CalcNext == Calculate \/ Format

SpecCalc == CalcInit /\ [][CalcNext]_vars

-----------------------------------------------------------------------------
(* One World Bank indicator: request, fetch, calculate, format *)

WBInit ==
    /\ resp \in Responses
    /\ data = NoData
    /\ metrics = NotRun
    /\ formatted = [field |-> "", out |-> NotFormatted]
    /\ phase = "request"
    /\ CacheIdle
    /\ MainIdle

WBFetch ==
    /\ phase = "request"
    /\ data' = fetch_world_bank_body(resp)
    /\ phase' = "input"
    /\ UNCHANGED <<resp, metrics, formatted, cacheVars, mainVars>>

WBNext == WBFetch \/ Calculate \/ Format

SpecWB == WBInit /\ [][WBNext]_vars

-----------------------------------------------------------------------------
(* Callers of the cached fetch functions, with the clock *)

MaxTicks == 2
TickSeconds == TTL \div 2

\* Upstream answers used where the answer is one input among several.
MainResponses ==
    {RequestFailed,
     Response(500, [kind |-> "list", elems |-> <<Meta, PointList(<<Some(50), Some(45)>>)>>]),
     Undecodable(200),
     Response(200, [kind |-> "list", elems |-> <<Meta>>]),
     Response(200, [kind |-> "list", elems |-> <<Meta, PointList(<<Some(50), Some(45)>>)>>]),
     Response(200, [kind |-> "list", elems |-> <<Meta, PointList(<<None, Some(50), Some(45)>>)>>]),
     Response(200, [kind |-> "list", elems |-> <<Meta, Text>>])}

CacheKeys == {"CPIAUCSL", "FP.CPI.TOTL.ZG", "FR.INR.RINR"}

\* The bookkeeping of one call: r is the outcome of cached_call.
Record(fn, key, r) ==
    LET cur == [called |-> TRUE, at |-> now, ran |-> r.ran, result |-> r.result]
    IN  /\ cache' = r.cache
        /\ lastCall' = [lastCall EXCEPT ![key] = cur]
        /\ lastFetch' = [fn |-> fn, key |-> key, prev |-> lastCall[key], cur |-> cur]

CalcIdle ==
    /\ resp = NoResponse
    /\ data = NoData
    /\ metrics = NotRun
    /\ formatted = [field |-> "", out |-> NotFormatted]
    /\ phase = "idle"

CacheInit == CalcIdle /\ CacheIdle /\ MainIdle

CallFred ==
    \E key \in CacheKeys \cap FredIds :
        /\ Record("fetch_fred_data", key, fetch_fred_data(cache, key, now))
        /\ UNCHANGED <<now, calcVars, mainVars>>

CallWorldBank ==
    \E key \in CacheKeys \cap WBIds : \E r \in MainResponses :
        /\ Record("fetch_world_bank_data", key, fetch_world_bank_data(cache, key, now, r))
        /\ UNCHANGED <<now, calcVars, mainVars>>

Tick ==
    /\ now < MaxTicks * TickSeconds
    /\ now' = now + TickSeconds
    /\ UNCHANGED <<cache, lastCall, lastFetch, calcVars, mainVars>>

CacheNext == CallFred \/ CallWorldBank \/ Tick

SpecCache == CacheInit /\ [][CacheNext]_vars

-----------------------------------------------------------------------------
(* main: the indicator loops of the four tabs *)

Selections ==
    {<<>>, <<"US">>, <<"Europe">>, <<"India">>, <<"US", "Europe">>, <<"US", "India">>,
     <<"Europe", "India">>, <<"US", "Europe", "India">>}

CountryItems(tab, c) ==
    [i \in 1..Len(INDICATORS[c]) |->
        [tab |-> tab, country |-> c, key |-> INDICATORS[c][i].key, id |-> INDICATORS[c][i].id]]

Only(items, k) == SelectSeq(items, LAMBDA it : it.key = k)

\* for country in selected_countries: the indicators of the country, all of
\* them (k = "") or the one named k if the country has it.
RECURSIVE ForCountries(_, _, _)
ForCountries(sel, tab, k) ==
    IF sel = <<>> THEN <<>>
    ELSE (IF k = "" THEN CountryItems(tab, Head(sel))
          ELSE Only(CountryItems(tab, Head(sel)), k))
         \o ForCountries(Tail(sel), tab, k)

\* The fetches of one script run, in program order.
Script(sel) ==
    ForCountries(sel, 1, "")
    \o ForCountries(sel, 2, "CPI") \o ForCountries(sel, 2, "PPI")
    \o ForCountries(sel, 3, "Interest Rate")
    \o ForCountries(sel, 4, "")

\* The failure behind the entry served from the cache: that of the row that
\* executed the fetch.
RECURSIVE FailureOf(_, _)
FailureOf(rs, id) ==
    IF rs = <<>> THEN "none"
    ELSE IF rs[Len(rs)].id = id /\ rs[Len(rs)].ran THEN rs[Len(rs)].failure
    ELSE FailureOf(SubSeq(rs, 1, Len(rs) - 1), id)

MainInit ==
    /\ CalcIdle
    /\ CacheIdle
    /\ selected \in Selections
    /\ rows = <<>>
    /\ pc = "running"

\* One iteration of an indicator loop: fetch, calculate_metrics, display.
Iteration(item, r, failure) ==
    /\ data' = r.result
    /\ metrics' = calculate_metrics(r.result)
    /\ formatted' =
         IF item.tab = 1 /\ metrics'.ret = "dict" /\ TruthyPct(metrics'.m.yoy_pct)
         THEN [field |-> "yoy_pct", out |-> format_change(metrics'.m.yoy_pct, TRUE)]
         ELSE formatted
    /\ rows' = Append(rows, [tab |-> item.tab, country |-> item.country,
                             key |-> item.key, id |-> item.id, ran |-> r.ran,
                             failure |-> IF r.ran THEN failure
                                         ELSE FailureOf(rows, item.id),
                             fetched |-> r.result.kind, ret |-> metrics'.ret])
    /\ pc' = IF metrics'.ret = "raise" THEN "crashed" ELSE pc
    /\ UNCHANGED <<resp, phase, now, selected>>

FredStep ==
    /\ pc = "running"
    /\ Len(rows) < Len(Script(selected))
    /\ LET item == Script(selected)[Len(rows) + 1]
       IN  /\ item.country \in {"US", "Europe"}
           /\ LET r == fetch_fred_data(cache, item.id, now)
              IN  /\ Record("fetch_fred_data", item.id, r)
                  /\ Iteration(item, r, "credential")

WorldBankStep ==
    /\ pc = "running"
    /\ Len(rows) < Len(Script(selected))
    /\ LET item == Script(selected)[Len(rows) + 1]
       IN  /\ item.country \notin {"US", "Europe"}
           /\ \E a \in MainResponses :
                LET r == fetch_world_bank_data(cache, item.id, now, a)
                IN  /\ Record("fetch_world_bank_data", item.id, r)
                    /\ Iteration(item, r, Failure(a))

\* The rest of main after the last loop.
Finish ==
    /\ pc = "running"
    /\ Len(rows) = Len(Script(selected))
    /\ pc' = "done"
    /\ UNCHANGED <<calcVars, cacheVars, selected, rows>>

MainNext == FredStep \/ WorldBankStep \/ Finish

SpecMain == MainInit /\ [][MainNext]_vars

-----------------------------------------------------------------------------
(* Properties *)

Calculated == phase \in {"calculated", "formatted"}

\* The input read the way the specification describes it.
MostRecentFirst(d) == [i \in 1..Len(d.vals) |-> d.vals[Len(d.vals) + 1 - i]]

\* The previous value of the input: the entry before the last of a series,
\* the value of the record at index 1 of a point list.
InputCurrent(d) ==
    IF d.kind = "series" THEN Some(d.vals[Len(d.vals)]) ELSE d.vals[1]
InputPrevious(d) ==
    IF Len(d.vals) < 2 THEN None
    ELSE IF d.kind = "series" THEN Some(d.vals[Len(d.vals) - 1]) ELSE d.vals[2]

\* C1: whenever the current value is present and the previous value is
\* present and equal to 0, calculate_metrics returns a record whose mom_pct
\* is present and exactly 0.
C1_ZeroPreviousGivesZeroPct ==
    (/\ Calculated
     /\ data.kind \in {"series", "list"}
     /\ Len(data.vals) >= 2
     /\ InputCurrent(data) # None
     /\ InputPrevious(data) = Some(0))
    => (metrics.ret = "dict" /\ metrics.m.mom_pct = Some(Zero))

\* C2: for a series with at least 12 entries year_ago is the 12th most
\* recent entry, and with fewer than 12 entries year_ago is absent.
C2_YearAgoIsTwelfthMostRecent ==
    (Calculated /\ data.kind = "series")
    => IF Len(data.vals) >= 12
       THEN metrics.ret = "dict" /\ metrics.m.year_ago = Some(MostRecentFirst(data)[12])
       ELSE metrics.m.year_ago = None

C2_Witness ==
    /\ Calculated
    /\ data.kind = "series"
    /\ Len(data.vals) = 13
    /\ data.vals[2] = 10
    /\ data.vals[1] = 0 /\ data.vals[3] = 0
    /\ metrics.m.year_ago = Some(10)

\* C3: calculate_metrics returns None, and no record, when the input is
\* absent, empty, a point list of null values only, or a point list whose
\* first record has a null value, whatever the later records hold.
C3_AbsentForEmptyOrNullFirst ==
    (/\ Calculated
     /\ \/ data.kind = "none"
        \/ Len(data.vals) = 0
        \/ data.kind = "list" /\ data.vals[1] = None)
    => (metrics.ret = "None" /\ metrics.m = NoMetrics)

\* Scenario B: the first record is null and later records are not.
C3_Witness ==
    /\ Calculated
    /\ data = PointList(<<None, Some(50), Some(45)>>)
    /\ metrics.ret = "None"

\* C6: in a returned record mom_pct is present only if previous is present
\* and non-zero, and yoy_pct only if year_ago is present and non-zero.
C6_PctOnlyWithNonZeroReference ==
    (Calculated /\ metrics.ret = "dict")
    => /\ metrics.m.mom_pct # None
            => (metrics.m.previous # None /\ metrics.m.previous[1] # 0)
       /\ metrics.m.yoy_pct # None
            => (metrics.m.year_ago # None /\ metrics.m.year_ago[1] # 0)

\* A record with a zero previous value and a non-zero year-ago value.
C6_Witness ==
    /\ Calculated
    /\ metrics.ret = "dict"
    /\ metrics.m.previous = Some(0)
    /\ metrics.m.mom_pct = None
    /\ metrics.m.year_ago = Some(10)
    /\ metrics.m.yoy_pct # None

\* C7: in a returned record mom_change is current - previous whenever
\* previous is present (previous = 0 included), and mom_change is absent
\* exactly when previous is absent.
C7_MomChangeWheneverPreviousPresent ==
    (Calculated /\ metrics.ret = "dict")
    => /\ metrics.m.previous # None
            => metrics.m.mom_change = Some(metrics.m.current[1] - metrics.m.previous[1])
       /\ (metrics.m.mom_change = None) <=> (metrics.m.previous = None)

\* C8: format_change classifies every delta into exactly one direction:
\* "N/A" when it is absent, neutral when it is zero, positive when it is
\* above zero, negative when it is below zero; the magnitude shown is the
\* absolute value of the delta, to two decimals.
C8_DirectionAndMagnitude ==
    (phase = "formatted")
    => LET v == FieldValue(metrics.m, formatted.field)
           o == formatted.out
       IN  IF v = None
           THEN o.text = "N/A"
           ELSE LET n == v[1][1]
                    d == v[1][2]
                IN  /\ o.text = "span"
                    /\ (n = 0) <=> (o.color_class = "neutral" /\ o.arrow = "dot")
                    /\ (n > 0) <=> (o.color_class = "positive" /\ o.arrow = "up")
                    /\ (n < 0) <=> (o.color_class = "negative" /\ o.arrow = "down")
                    /\ o.hundredths >= 0
                    \* |n|/d is within half a hundredth of the magnitude shown
                    /\ Abs(200 * Abs(n) - 2 * d * o.hundredths) <= d

\* A delta of exactly zero has been formatted.
C8_Witness ==
    /\ phase = "formatted"
    /\ FieldValue(metrics.m, formatted.field) = Some(Zero)
    /\ formatted.out.color_class = "neutral"

\* C10 as stated: when the record at index 1 of a point list has a null
\* value and a later record has a non-null value, previous is the value of
\* the first later non-null record.
C10_PreviousSkipsNulls ==
    (/\ Calculated
     /\ metrics.ret = "dict"
     /\ data.kind = "list"
     /\ Len(data.vals) >= 3
     /\ data.vals[2] = None
     /\ \E i \in 3..Len(data.vals) : data.vals[i] # None)
    => metrics.m.previous =
         data.vals[CHOOSE i \in 3..Len(data.vals) :
                      data.vals[i] # None /\ \A j \in 3..(i - 1) : data.vals[j] = None]

\* C10 amended: for point-list input previous is read from the record at
\* index 1 only; it is that record's value when the value is neither null
\* nor zero, and absent otherwise, whatever the later records hold.
C10_PreviousFromIndexOneOnly ==
    (Calculated /\ metrics.ret = "dict" /\ data.kind = "list")
    => metrics.m.previous =
         (IF Len(data.vals) >= 2 /\ data.vals[2] \notin {None, Some(0)}
          THEN data.vals[2] ELSE None)

\* The record at index 1 is null, a later one is not, previous is absent.
C10_Witness ==
    /\ Calculated
    /\ data = PointList(<<Some(50), None, Some(45)>>)
    /\ metrics.ret = "dict"
    /\ metrics.m.previous = None

\* C9: fetch_world_bank_data returns the second element of the decoded
\* payload when the status is 200 and that element is present and
\* non-empty, and None for any other status, a shorter payload, an empty or
\* null second element, or a body that does not decode.
C9_SecondElementOnlyOn200 ==
    (phase # "request")
    => /\ (data # NoData)
            => /\ ~resp.exc /\ resp.status = 200 /\ resp.decodes
               /\ Len(resp.payload.elems) >= 2
               /\ data = resp.payload.elems[2]
               /\ Len(data.vals) > 0
       /\ (\/ resp.exc
           \/ resp.status # 200
           \/ ~resp.decodes
           \/ Len(resp.payload.elems) < 2
           \/ resp.payload.elems[2] \in {NoData, PointList(<<>>)})
            => data = NoData
       /\ (/\ ~resp.exc /\ resp.status = 200 /\ resp.decodes
           /\ Len(resp.payload.elems) >= 2
           /\ resp.payload.elems[2].kind = "list"
           /\ Len(resp.payload.elems[2].vals) > 0)
            => data = resp.payload.elems[2]

\* A 200 answer with a record list as second of three elements was returned.
C9_Witness ==
    /\ phase = "input"
    /\ resp.status = 200
    /\ Len(resp.payload.elems) = 3
    /\ data = PointList(<<None, Some(50)>>)

\* C4: of two consecutive calls of a cached fetch function with the same
\* key less than the TTL apart, at most one executes the function body; a
\* call that follows an executing call within the TTL does not execute the
\* body and returns the stored result, a stored None included.
C4_AtMostOneFetchWithinTTL ==
    (/\ lastFetch.prev.called
     /\ lastFetch.cur.at - lastFetch.prev.at < TTL)
    => /\ ~(lastFetch.prev.ran /\ lastFetch.cur.ran)
       /\ ~lastFetch.cur.ran => lastFetch.cur.result = lastFetch.prev.result

\* A stored None was served, later than and within the TTL of the call of
\* fetch_world_bank_data that stored it.
C4_Witness ==
    /\ lastFetch.fn = "fetch_world_bank_data"
    /\ lastFetch.prev.called /\ lastFetch.prev.ran
    /\ lastFetch.prev.result = NoData
    /\ lastFetch.cur.at > lastFetch.prev.at
    /\ lastFetch.cur.at - lastFetch.prev.at < TTL
    /\ ~lastFetch.cur.ran
    /\ lastFetch.cur.result = NoData

\* C5: when the fetch of one indicator fails (exception, bad status,
\* undecodable or malformed body, missing credential) the fetch function
\* returns None, calculate_metrics yields None for that indicator, and every
\* other indicator of the run is still fetched and computed.
C5_FailureIsolated ==
    /\ \A i \in 1..Len(rows) :
         rows[i].failure # "none" => (rows[i].fetched = "none" /\ rows[i].ret = "None")
    /\ pc # "crashed"
    /\ pc = "done" => Len(rows) = Len(Script(selected))

\* C11: for point-list input a record is returned only when the value of the
\* first record is neither null nor zero (a first value of 0 yields None like
\* a null one); in every returned record current is that value, year_ago
\* equals current, and so yoy_change = 0 and yoy_pct = 0 whatever the other
\* records hold.
C11_PointListYearAgoIsCurrent ==
    (Calculated /\ data.kind = "list" /\ Len(data.vals) > 0)
    => /\ (metrics.ret = "dict") <=> (data.vals[1] \notin {None, Some(0)})
       /\ data.vals[1] = Some(0) => metrics.ret = "None"
       /\ metrics.ret = "dict"
            => /\ metrics.m.current = data.vals[1]
               /\ metrics.m.current # None /\ metrics.m.current[1] # 0
               /\ metrics.m.year_ago = metrics.m.current
               /\ metrics.m.yoy_change = Some(0)
               /\ metrics.m.yoy_pct = Some(Zero)

\* A record was returned for a list whose later records differ from the first.
C11_Witness ==
    /\ Calculated
    /\ data = PointList(<<Some(50), Some(45), Some(45)>>)
    /\ metrics.ret = "dict"
    /\ metrics.m.previous = Some(45)
    /\ metrics.m.year_ago = Some(50)
    /\ metrics.m.yoy_pct = Some(Zero)

====
